---- MODULE Spec2Model ----
(***************************************************************************)
(* A model of the pipeline utilities and orchestrator of the workflow      *)
(* repository:                                                             *)
(*   - utils.RateLimiter.wait_if_needed        (RLSeqSpec, RLSpec)         *)
(*   - utils.RetryHandler.execute_with_retry   (RetrySpec)                 *)
(*   - main.WorkflowProcessor.process_workflow (WFSpec, WFFairSpec)        *)
(*   - video_generator.VideoWorkflowManager.process_video_workflow        *)
(*                                             (VideoSpec)                 *)
(*   - config.ConfigManager.get_config and main.main (ConfigSpec)          *)
(*   - video_generator.DoubaoSeedanceAPI._download_video (DownloadSpec)    *)
(*   - utils.PerformanceMonitor                (PerfSpec)                  *)
(*   - video_generator.StoryboardGenerator.generate_storyboard and         *)
(*     _parse_storyboard_response              (StoryboardSpec)            *)
(* Each specification starts from the state after construction of the     *)
(* object it is about and leaves the other components' variables alone.    *)
(***************************************************************************)
EXTENDS Integers, Sequences, FiniteSets, TLC

\* ------------------------------------------------------------------ bounds
MaxN == 2          \* largest max_requests tried
MaxW == 3          \* largest time_window tried (seconds)
MaxClock == 7      \* the controllable clock runs from 0 to MaxClock
NumProcs == 2      \* coroutines sharing one limiter
MaxRetries == 3    \* largest max_retries tried
MaxItems == 3      \* most notes a search returns
MaxBaseDelay == 2  \* largest base_delay tried (seconds)
MaxBackoff == 2    \* largest backoff_factor tried
MaxScenes == 3     \* most scenes a storyboard handed to the synthesis loop has
MaxEntries == 2    \* most entries of a payload's scenes list
MaxProse == 1      \* most tokens of prose before, and after, the payload
MaxNumScenes == 2  \* largest num_scenes asked for
MaxEnum == 3       \* largest value tried for NOTE_TYPE and SORT
MaxNum == 1        \* largest value tried for the numeric options
MaxDlClock == 3    \* the download clock runs from 0 to MaxDlClock half seconds
MaxDownloads == 3  \* most calls of _download_video in a run
MaxPmClock == 3    \* the monitor's clock runs from 0 to MaxPmClock
MaxCheckpoints == 3 \* most checkpoint calls between two starts

VARIABLES
    \* --- RateLimiter (utils.py 164-197)
    max_requests,   \* self.max_requests
    time_window,    \* self.time_window
    requests,       \* self.requests: list of recorded timestamps
    clock,          \* time.time(), the controllable clock (whole seconds)
    lpc,            \* per coroutine: "idle" (not in a call), "sleeping" (at await asyncio.sleep)
                    \* or "cancelled" (not in a call, its latest call was cancelled in its sleep)
    wake,           \* per coroutine: the instant its asyncio.sleep(sleep_time) is over
    admitted,       \* history: the admission instants still inside the trailing window
    call_info,      \* history, per coroutine: while its call sleeps, the instant of the call and
                    \* the oldest timestamp recorded at that instant (-1: none)
    naps,           \* history, per coroutine: how many times its latest call suspended
    \* --- RetryHandler (utils.py 199-252)
    max_retries,    \* self.max_retries
    attempt,        \* the loop variable of "for attempt in range(self.max_retries + 1)"
    last_exception, \* the local last_exception
    rpc,            \* "start", "try" (about to invoke func), "sleeping" (at await asyncio.sleep), "returned", "raised",
                    \* "cancelled" (CancelledError left the call during its sleep)
    outcome,        \* what execute_with_retry returned or raised to its caller
    opFails,        \* the operation fails on its first opFails invocations ...
    opAlways,       \* ... or on every invocation
    opValue,        \* the value the operation returns when it succeeds
    invocations,    \* history: how many times func has been invoked
    thrown,         \* history: the exceptions func raised, in order
    base_delay,     \* self.base_delay
    backoff_factor, \* self.backoff_factor
    total_delay,    \* the local total_delay of the sleep in progress, in tenths of a second (0: none)
    sleeps,         \* history: how many times execute_with_retry reached await asyncio.sleep
    \* --- WorkflowProcessor.process_workflow (main.py 339-484)
    notes,          \* the list search_notes returned (note ids, in order)
    idx,            \* the position of "for note in notes" (1-based)
    wpc,            \* the await process_workflow is at: "search", "fetch", "rewrite", "video",
                    \* "persist1", "persist2"; or "returned", or "raised" (an exception left it)
    video_result,   \* the local video_result
    original_success, \* the local original_success
    results,        \* the local results
    report,         \* the dict process_workflow returned
    out,            \* history: per item, the outcome of each stage call made for it
    calls,          \* history: every collaborator call process_workflow made, in order
    \* --- VideoWorkflowManager.process_video_workflow (video_generator.py 377-451)
    scenes,         \* the local scenes: what generate_storyboard returned
    vidx,           \* the position of "for scene in scenes" (1-based)
    vpc,            \* "decompose" (at await generate_storyboard), "synth" (at await generate_video), "returned"
    video_results,  \* the local video_results
    vreport,        \* the dict process_video_workflow returned
    synth_log,      \* history: the generate_video calls made, in order, and how each ended
    \* --- StoryboardGenerator.generate_storyboard (video_generator.py 52-207)
    num_scenes,     \* the argument num_scenes
    response,       \* the reply of the LLM endpoint: did the request raise, response.status, has it a content
    response_text,  \* storyboard_text, the text of the reply, as a sequence of tokens
    body,           \* how response_text was made: the payload between the prose ...
    prefix,         \* ... the prose before it ...
    suffix,         \* ... and the prose after it
    spc,            \* "call", "returned" or "raised"
    callee,         \* which function was called: "parse" (_parse_storyboard_response) or "generate"
    storyboard,     \* the list the call returned
    \* --- main (main.py 486-521) and ConfigManager.get_config (config.py 77-179)
    config,         \* the options read from the environment
    mpc,            \* where main is: "load", "keyword", "workflow" (in process_workflow), "returned"
    started,        \* history: process_workflow was called
    \* --- DoubaoSeedanceAPI._download_video (video_generator.py 330-361)
    dl_clock,       \* datetime.now(), in half seconds
    dl_calls,       \* history: how many calls of _download_video were made
    dl_written,     \* history: the paths written, in order, each with the instant of its call
    \* --- PerformanceMonitor (utils.py 347-381)
    pm_clock,       \* time.time(), in whole seconds
    start_time,     \* self.start_time (-1: None)
    checkpoints,    \* self.checkpoints: a dict, kept in insertion order as a list of
                    \* [name, elapsed] entries
    pm_log,         \* history: the checkpoint calls since the last start, in order, each
                    \* with the time elapsed since the start
    summary         \* what the latest get_summary returned, while no call was made after it

rlVars == <<max_requests, time_window, requests, clock, lpc, wake, admitted, call_info, naps>>
retryVars == <<max_retries, attempt, last_exception, rpc, outcome, opFails, opAlways,
               opValue, invocations, thrown, base_delay, backoff_factor, total_delay, sleeps>>

wfVars == <<notes, idx, wpc, video_result, original_success, results, report, out, calls>>

vidVars == <<scenes, vidx, vpc, video_results, vreport, synth_log>>
sbVars == <<num_scenes, response, response_text, body, prefix, suffix, spc, callee, storyboard>>

cfgVars == <<config, mpc, started>>
dlVars == <<dl_clock, dl_calls, dl_written>>

pmVars == <<pm_clock, start_time, checkpoints, pm_log, summary>>

vars == <<rlVars, retryVars, wfVars, vidVars, sbVars, cfgVars, dlVars, pmVars>>

Procs == 1..NumProcs

\* =================================================================
\* RateLimiter
\* =================================================================

\* [req_time for req_time in self.requests if now - req_time < self.time_window]
Purge(reqs, now) == SelectSeq(reqs, LAMBDA req_time : now - req_time < time_window)

\* faulty variant: the sleep is too short by the whole window
SleepTime_Short(reqs, now) == 1 - (now - reqs[1])

\* sleep_time = self.time_window - (now - self.requests[0]) + 1
SleepTime(reqs, now) == time_window - (now - reqs[1]) + 1

\* no call of the coroutine is asleep
NoCall == [now |-> -1, oldest |-> -1]

\* faulty variant: the call records its request twice
Admit_Twice(p, reqs, now) ==
    /\ requests' = Append(Append(reqs, now), now)
    /\ admitted' = Append(admitted, now)
    /\ call_info' = [call_info EXCEPT ![p] = NoCall]
    /\ lpc' = [lpc EXCEPT ![p] = "idle"]
    /\ wake' = [wake EXCEPT ![p] = 0]

\* self.requests.append(now), and the admission joins the history
Admit(p, reqs, now) ==
    /\ requests' = Append(reqs, now)
    /\ admitted' = Append(admitted, now)
    /\ call_info' = [call_info EXCEPT ![p] = NoCall]
    /\ lpc' = [lpc EXCEPT ![p] = "idle"]
    /\ wake' = [wake EXCEPT ![p] = 0]

\* wait_if_needed from its first line up to the await (or to its end when it does not sleep)
Call(p) ==
    /\ lpc[p] \in {"idle", "cancelled"}
    /\ LET now == clock
           purged == Purge(requests, now)
       IN IF Len(purged) >= max_requests /\ SleepTime(purged, now) > 0
          THEN /\ requests' = purged
               /\ lpc' = [lpc EXCEPT ![p] = "sleeping"]
               /\ wake' = [wake EXCEPT ![p] = now + SleepTime(purged, now)]
               /\ call_info' = [call_info EXCEPT ![p] =
                                   [now |-> now,
                                    oldest |-> IF requests = <<>> THEN -1 ELSE requests[1]]]
               /\ naps' = [naps EXCEPT ![p] = 1]
               /\ UNCHANGED admitted
          ELSE /\ Admit(p, purged, now)
               /\ naps' = [naps EXCEPT ![p] = 0]
    /\ UNCHANGED <<max_requests, time_window, clock, retryVars, wfVars, vidVars, sbVars, cfgVars, dlVars, pmVars>>

\* faulty variant: the instant read before the sleep is used again
WakeNow_Stale(p) == call_info[p].now

\* now = time.time(), read again after the sleep
WakeNow(p) == clock

\* faulty variant: the requests recorded after the call began are lost
WakeRequests_Snapshot(p) == SelectSeq(requests, LAMBDA t : t <= call_info[p].now)

\* self.requests, read again after the sleep by the second comprehension
WakeRequests(p) == requests

\* wait_if_needed from the return of asyncio.sleep to its end
Wake(p) ==
    /\ lpc[p] = "sleeping"
    /\ clock >= wake[p]
    /\ LET now == WakeNow(p)
       IN Admit(p, Purge(WakeRequests(p), now), now)
    /\ UNCHANGED <<max_requests, time_window, clock, naps, retryVars, wfVars, vidVars, sbVars, cfgVars, dlVars, pmVars>>

\* faulty variant: the abandoned request is recorded all the same
CancelledRequests_Recorded(p) == Append(requests, call_info[p].now)

\* self.requests when CancelledError leaves wait_if_needed at the await: the
\* statements after the sleep, the append among them, are not run
CancelledRequests(p) == requests

\* the task of the caller is cancelled while it sleeps: asyncio.sleep raises
\* CancelledError, which wait_if_needed does not catch
Cancel(p) ==
    /\ lpc[p] = "sleeping"
    /\ lpc' = [lpc EXCEPT ![p] = "cancelled"]
    /\ wake' = [wake EXCEPT ![p] = 0]
    /\ call_info' = [call_info EXCEPT ![p] = NoCall]
    /\ requests' = CancelledRequests(p)
    /\ UNCHANGED <<max_requests, time_window, clock, admitted, naps, retryVars, wfVars, vidVars, sbVars, cfgVars, dlVars, pmVars>>

\* the clock advances by one second; admissions leave the trailing window
Tick ==
    /\ clock < MaxClock
    /\ clock' = clock + 1
    /\ admitted' = SelectSeq(admitted, LAMBDA t : clock + 1 - t < time_window)
    /\ UNCHANGED <<max_requests, time_window, requests, lpc, wake, call_info, naps, retryVars, wfVars, vidVars, sbVars, cfgVars, dlVars, pmVars>>

NoneSleeping == \A q \in Procs : lpc[q] = "idle"

\* the state of a limiter no specification but the limiter's own touches
RLParked ==
    /\ max_requests = 1
    /\ time_window = 1
    /\ requests = <<>>
    /\ clock = 0
    /\ lpc = [p \in Procs |-> "idle"]
    /\ wake = [p \in Procs |-> 0]
    /\ admitted = <<>>
    /\ call_info = [p \in Procs |-> NoCall]
    /\ naps = [p \in Procs |-> 0]

RLStart ==
    /\ max_requests \in 1..MaxN
    /\ time_window \in 1..MaxW
    /\ requests = <<>>
    /\ clock = 0
    /\ lpc = [p \in Procs |-> "idle"]
    /\ wake = [p \in Procs |-> 0]
    /\ admitted = <<>>
    /\ call_info = [p \in Procs |-> NoCall]
    /\ naps = [p \in Procs |-> 0]

\* =================================================================
\* RetryHandler
\* =================================================================

\* the kinds of failure an operation raises (all subclasses of Exception)
ExcKinds == {"transient", "permanent", "malformed"}
Values == {"v1", "v2"}
NoException == [kind |-> "none", id |-> 0]     \* last_exception = None
NoOutcome == [how |-> "pending"]

\* does the i-th invocation of the operation raise?
OpFailsAt(i) == opAlways \/ i <= opFails

\* faulty variant: the loop runs one attempt too few, range(self.max_retries)
RangeEnd_OneLess == max_retries

\* the end of range(self.max_retries + 1)
RangeEnd == max_retries + 1

\* faulty variant: only a transient failure is caught and retried
Caught_TransientOnly(kind) == kind = "transient"

\* "except Exception as e" catches a failure of every kind
Caught(kind) == TRUE

\* faulty variant: only the first failure is remembered
RecordException_First(old, e) == IF old = NoException THEN e ELSE old

\* except Exception as e: last_exception = e
RecordException(old, e) == e

\* x ** n
RECURSIVE Pow(_, _)
Pow(x, n) == IF n = 0 THEN 1 ELSE x * Pow(x, n - 1)

\* faulty variant: the exponent is one too high
Delay_NextPower(a) == base_delay * Pow(backoff_factor, a + 1)

\* delay = self.base_delay * (self.backoff_factor ** attempt)
Delay(a) == base_delay * Pow(backoff_factor, a)

\* random.uniform(0.1, 0.3), in tenths: 0.1, 0.2 and 0.3
JitterTenths == 1..3

\* total_delay = delay + jitter, jitter = random.uniform(0.1, 0.3) * delay; in tenths of a second
TotalDelay(a, jitter) == 10 * Delay(a) + jitter * Delay(a)

\* faulty variant: the last failed attempt is followed by a sleep too
SleepsAfter_Always(a) == TRUE

\* if attempt < self.max_retries: the failed attempt a is followed by a sleep
SleepsAfter(a) == a < max_retries

\* the for statement takes its next value a, or the loop is over: raise last_exception
NextAttempt(a, exc) ==
    IF a < RangeEnd
    THEN /\ attempt' = a
         /\ rpc' = "try"
         /\ outcome' = outcome
    ELSE /\ attempt' = attempt
         /\ rpc' = "raised"
         /\ outcome' = [how |-> "raised", exc |-> exc]

\* last_exception = None, and the loop is entered
RetryBegin ==
    /\ rpc = "start"
    /\ last_exception' = NoException
    /\ NextAttempt(0, NoException)
    /\ total_delay' = 0
    /\ UNCHANGED <<max_retries, opFails, opAlways, opValue, invocations, thrown,
                   base_delay, backoff_factor, sleeps, rlVars, wfVars, vidVars, sbVars, cfgVars, dlVars, pmVars>>

\* the try block: func(*args, **kwargs) returns, and so does execute_with_retry
RetrySucceed ==
    /\ rpc = "try"
    /\ ~OpFailsAt(invocations + 1)
    /\ invocations' = invocations + 1
    /\ rpc' = "returned"
    /\ outcome' = [how |-> "returned", value |-> opValue]
    /\ UNCHANGED <<max_retries, attempt, last_exception, opFails, opAlways, opValue,
                   thrown, base_delay, backoff_factor, total_delay, sleeps, rlVars, wfVars, vidVars, sbVars, cfgVars, dlVars, pmVars>>

\* the try block raises: the except clause up to the await, or, on the last
\* attempt, to the end of the loop and the final raise
RetryFail(kind) ==
    /\ rpc = "try"
    /\ OpFailsAt(invocations + 1)
    /\ LET e == [kind |-> kind, id |-> invocations + 1]
           recorded == RecordException(last_exception, e)
       IN /\ invocations' = invocations + 1
          /\ thrown' = Append(thrown, e)
          /\ IF ~Caught(kind)
             THEN /\ rpc' = "raised"
                  /\ outcome' = [how |-> "raised", exc |-> e]
                  /\ total_delay' = 0
                  /\ UNCHANGED <<attempt, last_exception, sleeps>>
             ELSE /\ last_exception' = recorded
                  /\ IF SleepsAfter(attempt)
                     THEN /\ rpc' = "sleeping"
                          /\ \E jitter \in JitterTenths :
                                total_delay' = TotalDelay(attempt, jitter)
                          /\ sleeps' = sleeps + 1
                          /\ UNCHANGED <<attempt, outcome>>
                     ELSE /\ NextAttempt(attempt + 1, recorded)
                          /\ total_delay' = 0
                          /\ UNCHANGED sleeps
    /\ UNCHANGED <<max_retries, opFails, opAlways, opValue, base_delay, backoff_factor,
                   rlVars, wfVars, vidVars, sbVars, cfgVars, dlVars, pmVars>>

\* asyncio.sleep(total_delay) returns and the loop goes on
RetryResume ==
    /\ rpc = "sleeping"
    /\ NextAttempt(attempt + 1, last_exception)
    /\ total_delay' = 0
    /\ UNCHANGED <<max_retries, last_exception, opFails, opAlways, opValue,
                   invocations, thrown, base_delay, backoff_factor, sleeps, rlVars, wfVars, vidVars, sbVars, cfgVars, dlVars, pmVars>>

\* the task of the caller is cancelled during the backoff sleep: CancelledError
\* is raised at the await inside the except clause and leaves the call
RetryCancel ==
    /\ rpc = "sleeping"
    /\ rpc' = "cancelled"
    /\ outcome' = [how |-> "cancelled"]
    /\ total_delay' = 0
    /\ UNCHANGED <<max_retries, attempt, last_exception, opFails, opAlways, opValue,
                   invocations, thrown, base_delay, backoff_factor, sleeps, rlVars, wfVars, vidVars, sbVars, cfgVars, dlVars, pmVars>>

RetryParked ==
    /\ max_retries = 0
    /\ attempt = 0
    /\ last_exception = NoException
    /\ rpc = "start"
    /\ outcome = NoOutcome
    /\ opFails = 0
    /\ opAlways = FALSE
    /\ opValue = "v1"
    /\ invocations = 0
    /\ thrown = <<>>
    /\ base_delay = 1
    /\ backoff_factor = 1
    /\ total_delay = 0
    /\ sleeps = 0

RetryStart ==
    /\ max_retries \in 0..MaxRetries
    /\ attempt = 0
    /\ last_exception = NoException
    /\ rpc = "start"
    /\ outcome = NoOutcome
    /\ opFails \in 0..(MaxRetries + 1)
    /\ opAlways \in BOOLEAN
    /\ opValue \in Values
    /\ invocations = 0
    /\ thrown = <<>>
    /\ base_delay \in 1..MaxBaseDelay
    /\ backoff_factor \in 1..MaxBackoff
    /\ total_delay = 0
    /\ sleeps = 0

\* =================================================================
\* WorkflowProcessor.process_workflow
\* =================================================================
\* Every await of process_workflow is one step.  A stage call ends in one of
\*   "ok"    the collaborator returned a usable value,
\*   "fail"  it returned its failure value (None, "", success = False, False),
\*   "raise" an exception came out of the call.
\* NotionManager.add_database_item catches every exception itself and returns
\* a bool, so the two persistence calls end in "ok" or "fail" only.

StageOutcomes == {"ok", "fail", "raise"}
PersistOutcomes == {"ok", "fail"}

NotRun == [fetch |-> "-", rewrite |-> "-", video |-> "-", persist1 |-> "-", persist2 |-> "-"]
NoReport == [pending |-> TRUE]
NoVideo == [success |-> FALSE, why |-> "none"]      \* video_result = None

\* what process_video_workflow hands back (success = at least one video), or,
\* when it raises, the dict built at main.py 397
VideoDict(o) ==
    CASE o = "ok" -> [success |-> TRUE, why |-> "generated"]
      [] o = "fail" -> [success |-> FALSE, why |-> "failed"]
      [] OTHER -> [success |-> FALSE, why |-> "exception"]

\* faulty variant: the two flags change places
ItemResult_SwappedFlags(note_id, video, orig, proc) ==
    [note_id |-> note_id, original_saved |-> proc, processed_saved |-> orig,
     video_generation |-> video]

\* the dict built at main.py 456-467
ItemResult(note_id, video, orig, proc) ==
    [note_id |-> note_id, original_saved |-> orig, processed_saved |-> proc,
     video_generation |-> video]

\* faulty variant: the newest result is put first
AppendResult_Prepend(res, r) == <<r>> \o res

\* faulty variant: a result is kept only when both records were saved
AppendResult_OnlyIfSaved(res, r) ==
    IF r.original_saved /\ r.processed_saved THEN Append(res, r) ELSE res

\* results.append(result)
AppendResult(res, r) == Append(res, r)

\* the return statement after the loop
FinalReport(res) ==
    [success |-> TRUE, message |-> <<"processed", Len(res)>>, results |-> res]

\* the for statement takes the next note, or the loop is over and the report is returned
LoopNext(res) ==
    /\ results' = res
    /\ video_result' = NoVideo
    /\ original_success' = FALSE
    /\ IF idx < Len(notes)
       THEN /\ idx' = idx + 1
            /\ wpc' = "fetch"
            /\ report' = report
       ELSE /\ idx' = idx
            /\ wpc' = "returned"
            /\ report' = FinalReport(res)

\* faulty variant: the loop is left at the first item that fails
SkipItem_Break ==
    /\ results' = results
    /\ video_result' = NoVideo
    /\ original_success' = FALSE
    /\ idx' = idx
    /\ wpc' = "returned"
    /\ report' = FinalReport(results)

\* "continue", after the warning (main.py 375, 381) or in the per-item handler (472-474)
SkipItem == LoopNext(results)

\* faulty variant: the outer handler lets the exception go
OuterHandler_Reraise ==
    /\ wpc' = "raised"
    /\ report' = report

\* except Exception as e: return {"success": False, "message": ...}  (main.py 482-484)
OuterHandler ==
    /\ wpc' = "returned"
    /\ report' = [success |-> FALSE, message |-> <<"workflow_failed">>]

\* faulty variant: a fetch that returned nothing does not stop the item
FetchOk_Always(o) == TRUE

\* "if not note_content: continue": the item goes on only with a content
FetchOk(o) == o = "ok"

\* faulty variant: a rewrite that returned nothing does not stop the item
RewriteOk_Always(o) == TRUE

\* "if not processed_content: continue"
RewriteOk(o) == o = "ok"

\* faulty variant: the derived record is persisted right after the video stage
NextStage_DerivedFirst(stage) ==
    CASE stage = "fetch" -> "rewrite"
      [] stage = "rewrite" -> "video"
      [] stage = "video" -> "persist2"
      [] stage = "persist1" -> "persist2"

\* the await that follows the await of a stage in the body of the loop
NextStage(stage) ==
    CASE stage = "fetch" -> "rewrite"
      [] stage = "rewrite" -> "video"
      [] stage = "video" -> "persist1"
      [] stage = "persist1" -> "persist2"

\* one entry of the call history: the call of a stage for a note (0: for no note) and how it ended
StageCall(note_id, stage, o) == [note |-> note_id, stage |-> stage, ret |-> o]

\* faulty variant: a search that found nothing is reported like a finished run
EmptyReport_Success == FinalReport(<<>>)

\* if not notes: return {"success": False, "message": ...}
EmptyReport == [success |-> FALSE, message |-> <<"no_notes">>]

\* search_notes raised
SearchRaise ==
    /\ wpc = "search"
    /\ calls' = Append(calls, StageCall(0, "search", "raise"))
    /\ OuterHandler
    /\ UNCHANGED <<notes, idx, video_result, original_success, results, out,
                   rlVars, retryVars, vidVars, sbVars, cfgVars, dlVars, pmVars>>

\* search_notes returned n notes; with none, "if not notes: return ..."
Search(n) ==
    /\ wpc = "search"
    /\ calls' = Append(calls, StageCall(0, "search", "ok"))
    /\ notes' = [i \in 1..n |-> i]
    /\ out' = [i \in 1..n |-> NotRun]
    /\ IF n = 0
       THEN /\ wpc' = "returned"
            /\ report' = EmptyReport
            /\ UNCHANGED <<idx, results>>
       ELSE /\ wpc' = "fetch"
            /\ idx' = 1
            /\ results' = <<>>
            /\ report' = report
    /\ UNCHANGED <<video_result, original_success, rlVars, retryVars, vidVars, sbVars, cfgVars, dlVars, pmVars>>

\* 2.1 read_note_content
Fetch(o) ==
    /\ wpc = "fetch"
    /\ out' = [out EXCEPT ![idx].fetch = o]
    /\ calls' = Append(calls, StageCall(notes[idx], "fetch", o))
    /\ IF o # "raise" /\ FetchOk(o)
       THEN /\ wpc' = NextStage("fetch")
            /\ UNCHANGED <<idx, video_result, original_success, results, report>>
       ELSE SkipItem
    /\ UNCHANGED <<notes, rlVars, retryVars, vidVars, sbVars, cfgVars, dlVars, pmVars>>

\* 2.2 process_content
Rewrite(o) ==
    /\ wpc = "rewrite"
    /\ out' = [out EXCEPT ![idx].rewrite = o]
    /\ calls' = Append(calls, StageCall(notes[idx], "rewrite", o))
    /\ IF o # "raise" /\ RewriteOk(o)
       THEN /\ wpc' = NextStage("rewrite")
            /\ UNCHANGED <<idx, video_result, original_success, results, report>>
       ELSE SkipItem
    /\ UNCHANGED <<notes, rlVars, retryVars, vidVars, sbVars, cfgVars, dlVars, pmVars>>

\* 2.2.1 process_video_workflow inside its own try: whatever happens, go on to 2.3
Video(o) ==
    /\ wpc = "video"
    /\ out' = [out EXCEPT ![idx].video = o]
    /\ calls' = Append(calls, StageCall(notes[idx], "video", o))
    /\ video_result' = VideoDict(o)
    /\ wpc' = NextStage("video")
    /\ UNCHANGED <<notes, idx, original_success, results, report, rlVars, retryVars, vidVars, sbVars, cfgVars, dlVars, pmVars>>

\* 2.4 add_database_item(original_database_id, original_properties)
Persist1(o) ==
    /\ wpc = "persist1"
    /\ out' = [out EXCEPT ![idx].persist1 = o]
    /\ calls' = Append(calls, StageCall(notes[idx], "persist1", o))
    /\ original_success' = (o = "ok")
    /\ wpc' = NextStage("persist1")
    /\ UNCHANGED <<notes, idx, video_result, results, report, rlVars, retryVars, vidVars, sbVars, cfgVars, dlVars, pmVars>>

\* 2.4 add_database_item(processed_database_id, processed_properties), then
\* the result dict is built and appended
Persist2(o) ==
    /\ wpc = "persist2"
    /\ out' = [out EXCEPT ![idx].persist2 = o]
    /\ calls' = Append(calls, StageCall(notes[idx], "persist2", o))
    /\ LoopNext(AppendResult(results,
                ItemResult(notes[idx], video_result, original_success, o = "ok")))
    /\ UNCHANGED <<notes, rlVars, retryVars, vidVars, sbVars, cfgVars, dlVars, pmVars>>

WFParked ==
    /\ notes = <<>>
    /\ idx = 0
    /\ wpc = "search"
    /\ video_result = NoVideo
    /\ original_success = FALSE
    /\ results = <<>>
    /\ report = NoReport
    /\ out = <<>>
    /\ calls = <<>>

WFStart == WFParked

\* =================================================================
\* VideoWorkflowManager.process_video_workflow
\* =================================================================
\* A scene is known here by its scene_id and its duration, the fields the
\* results and the synthesis request carry.  generate_storyboard and generate_video catch every exception
\* themselves, so each call returns.

SceneIds == {"s1", "s2"}

\* the scenes tried: two with the same scene_id, two with the same duration
SceneChoices ==
    {[scene_id |-> "s1", duration |-> 8],
     [scene_id |-> "s2", duration |-> 5],
     [scene_id |-> "s1", duration |-> 5]}

\* the lists generate_storyboard may return
RECURSIVE SceneLists(_)
SceneLists(n) ==
    IF n = 0 THEN {<<>>}
    ELSE LET shorter == SceneLists(n - 1)
         IN shorter \cup {Append(l, sc) : l \in {x \in shorter : Len(x) = n - 1},
                                          sc \in SceneChoices}

\* how a generate_video call ends:
\*   "success"          status 200, a video_url, the download gave a path
\*   "success_no_file"  status 200, a video_url, _download_video returned None
\*   "no_url"           status 200 without a video_url
\*   "non200"           another status
\*   "exception"        an exception inside generate_video, caught at line 288
SynthOutcomes == {"success", "success_no_file", "no_url", "non200", "exception"}

\* the VideoGenerationResult generate_video returns
GenerateVideo(scene, o) ==
    CASE o = "success" ->
            [scene_id |-> scene.scene_id, status |-> "success", video_url |-> "url",
             video_path |-> "path", error_message |-> "none", generation_time |-> "elapsed"]
      [] o = "success_no_file" ->
            [scene_id |-> scene.scene_id, status |-> "success", video_url |-> "url",
             video_path |-> "none", error_message |-> "none", generation_time |-> "elapsed"]
      [] OTHER ->
            [scene_id |-> scene.scene_id, status |-> "failed", video_url |-> "none",
             video_path |-> "none", error_message |-> o, generation_time |-> "none"]

\* faulty variant: every request asks for the standard scene length
PayloadDuration_Standard(scene) == 8

\* "duration": scene.duration, in the payload of the synthesis request
PayloadDuration(scene) == scene.duration

\* faulty variant: only a successful result is kept
CollectResult_SuccessOnly(res, r) == IF r.status = "success" THEN Append(res, r) ELSE res

\* video_results.append(result)
CollectResult(res, r) == Append(res, r)

\* faulty variant: the loop is left at the first failed synthesis
LoopGoesOn_UntilFailure(r) == r.status = "success"

\* the if/else after the append only logs: the loop goes on whatever the status
LoopGoesOn(r) == TRUE

\* faulty variant: the run succeeds only when every scene did
AnySucceeded_All(successful, res) == Len(successful) = Len(res)

\* "success": len(successful_videos) > 0
AnySucceeded(successful, res) == Len(successful) > 0

\* the dict returned after the loop (video_generator.py 413-444)
VideoReport(scs, res) ==
    LET successful_videos == SelectSeq(res, LAMBDA r : r.status = "success")
        failed_videos == SelectSeq(res, LAMBDA r : r.status = "failed")
    IN [success |-> AnySucceeded(successful_videos, res),
        message |-> <<"generated", Len(successful_videos), Len(failed_videos)>>,
        total_scenes |-> Len(scs),
        successful_videos |-> Len(successful_videos),
        failed_videos |-> Len(failed_videos),
        scenes |-> [k \in 1..Len(scs) |-> [scene_id |-> scs[k].scene_id,
                                            duration |-> scs[k].duration]],
        video_results |-> res]

\* generate_storyboard returned scs; "if not scenes: return {...}"
Decompose(scs) ==
    /\ vpc = "decompose"
    /\ scenes' = scs
    /\ video_results' = <<>>
    /\ IF scs = <<>>
       THEN /\ vpc' = "returned"
            /\ vreport' = [success |-> FALSE, message |-> <<"storyboard_failed">>]
            /\ vidx' = vidx
       ELSE /\ vpc' = "synth"
            /\ vidx' = 1
            /\ vreport' = vreport
    /\ UNCHANGED <<synth_log, rlVars, retryVars, wfVars, sbVars, cfgVars, dlVars, pmVars>>

\* one turn of "for scene in scenes": generate_video returns, its result is
\* appended; after the last scene the report is built and returned
Synthesize(o) ==
    /\ vpc = "synth"
    /\ LET result == GenerateVideo(scenes[vidx], o)
           res == CollectResult(video_results, result)
       IN /\ synth_log' = Append(synth_log, [pos |-> vidx, scene_id |-> scenes[vidx].scene_id,
                                             duration |-> PayloadDuration(scenes[vidx]),
                                             outcome |-> o])
          /\ video_results' = res
          /\ IF vidx < Len(scenes) /\ LoopGoesOn(result)
             THEN /\ vidx' = vidx + 1
                  /\ UNCHANGED <<vpc, vreport>>
             ELSE /\ vpc' = "returned"
                  /\ vreport' = VideoReport(scenes, res)
                  /\ vidx' = vidx
    /\ UNCHANGED <<scenes, rlVars, retryVars, wfVars, sbVars, cfgVars, dlVars, pmVars>>

VidParked ==
    /\ scenes = <<>>
    /\ vidx = 0
    /\ vpc = "decompose"
    /\ video_results = <<>>
    /\ vreport = NoReport
    /\ synth_log = <<>>

VidStart == VidParked

\* =================================================================
\* StoryboardGenerator.generate_storyboard
\* =================================================================
\* The text of a reply is a sequence of tokens: "p" is a piece of prose
\* without braces, "{" "}" "[" "]" are themselves, a key name is that key with
\* its colon, and the other tokens are string and number literals (the commas
\* go with the tokens they follow).  A JSON value is tagged with its Python type.

StrV(s) == [kind |-> "str", v |-> s]
NumV(n) == [kind |-> "num", v |-> n]
ListV(l) == [kind |-> "list", v |-> l]
DictV(d) == [kind |-> "dict", v |-> d]
EmptyDict == [k \in {} |-> StrV("")]

\* the fields of StoryboardScene, in the order of the dataclass
FieldOrder == <<"scene_id", "scene_title", "scene_description", "duration",
                "visual_elements", "text_overlay", "background_music", "transition_effect">>
Fields == {FieldOrder[k] : k \in 1..Len(FieldOrder)}

\* the keys a reply's objects use, in the order they are written
KeyOrder == <<"scenes", "note">> \o FieldOrder
Keys == {KeyOrder[k] : k \in 1..Len(KeyOrder)}

StrTokens == {"s1", "s2", "txt"}
NumTokens == {"5"}
NumOf(tok) == CASE tok = "5" -> 5
NumToken(n) == CASE n = 5 -> "5"

\* ---- json.loads

NoParse == [ok |-> FALSE, next |-> 0, val |-> StrV("")]
Parsed(i, val) == [ok |-> TRUE, next |-> i, val |-> val]

\* d[key] = val
Put(d, key, val) == [x \in DOMAIN d \cup {key} |-> IF x = key THEN val ELSE d[x]]

RECURSIVE ParseValue(_, _)
RECURSIVE ParseMembers(_, _, _)
RECURSIVE ParseItems(_, _, _)

\* the value that starts at token i, and where it ends
ParseValue(t, i) ==
    IF i > Len(t) THEN NoParse
    ELSE CASE t[i] = "{" -> ParseMembers(t, i + 1, EmptyDict)
           [] t[i] = "[" -> ParseItems(t, i + 1, <<>>)
           [] t[i] \in StrTokens -> Parsed(i + 1, StrV(t[i]))
           [] t[i] \in NumTokens -> Parsed(i + 1, NumV(NumOf(t[i])))
           [] OTHER -> NoParse

\* the members of an object up to its closing brace; a repeated key keeps its last value
ParseMembers(t, i, d) ==
    IF i > Len(t) THEN NoParse
    ELSE IF t[i] = "}" THEN Parsed(i + 1, DictV(d))
    ELSE IF t[i] \in Keys
         THEN LET r == ParseValue(t, i + 1)
              IN IF r.ok THEN ParseMembers(t, r.next, Put(d, t[i], r.val)) ELSE NoParse
         ELSE NoParse

\* the items of a list up to its closing bracket
ParseItems(t, i, l) ==
    IF i > Len(t) THEN NoParse
    ELSE IF t[i] = "]" THEN Parsed(i + 1, ListV(l))
    ELSE LET r == ParseValue(t, i)
         IN IF r.ok THEN ParseItems(t, r.next, Append(l, r.val)) ELSE NoParse

\* json.loads(json_text): the whole text is one value, or JSONDecodeError
JsonLoads(t) ==
    LET r == ParseValue(t, 1)
    IN IF r.ok /\ r.next = Len(t) + 1 THEN [ok |-> TRUE, val |-> r.val]
       ELSE [ok |-> FALSE, val |-> StrV("")]

\* ---- json text of a value (what the collaborator writes)

RECURSIVE RenderValue(_)
RECURSIVE RenderMembers(_, _)
RECURSIVE RenderItems(_, _)

RenderValue(val) ==
    CASE val.kind = "dict" -> <<"{">> \o RenderMembers(val.v, 1) \o <<"}">>
      [] val.kind = "list" -> <<"[">> \o RenderItems(val.v, 1) \o <<"]">>
      [] val.kind = "num" -> <<NumToken(val.v)>>
      [] OTHER -> <<val.v>>

RenderMembers(d, k) ==
    IF k > Len(KeyOrder) THEN <<>>
    ELSE (IF KeyOrder[k] \in DOMAIN d THEN <<KeyOrder[k]>> \o RenderValue(d[KeyOrder[k]])
          ELSE <<>>) \o RenderMembers(d, k + 1)

RenderItems(l, k) ==
    IF k > Len(l) THEN <<>> ELSE RenderValue(l[k]) \o RenderItems(l, k + 1)

\* ---- _parse_storyboard_response

\* response_text.find(c): the lowest 0-based index of c, or -1
Find(t, c) ==
    IF \E i \in 1..Len(t) : t[i] = c
    THEN (CHOOSE i \in 1..Len(t) : t[i] = c /\ \A j \in 1..(i - 1) : t[j] # c) - 1
    ELSE -1

\* response_text.rfind(c): the highest 0-based index of c, or -1
RFind(t, c) ==
    IF \E i \in 1..Len(t) : t[i] = c
    THEN (CHOOSE i \in 1..Len(t) : t[i] = c /\ \A j \in (i + 1)..Len(t) : t[j] # c) - 1
    ELSE -1

\* response_text[a:b], a and b 0-based
Slice(t, a, b) == SubSeq(t, a + 1, b)

\* d.get(key, default)
Get(d, key, default) == IF key \in DOMAIN d THEN d[key] ELSE default

\* the standard scene length: scene_data.get('duration', 8)
DefaultDuration == 8

\* faulty variant: every absent field becomes the empty string
Default_EmptyString(f) == StrV("")

\* the second argument of scene_data.get for field f
Default(f) ==
    CASE f = "duration" -> NumV(DefaultDuration)
      [] f = "visual_elements" -> ListV(<<>>)
      [] OTHER -> StrV("")

\* StoryboardScene(scene_id=scene_data.get('scene_id', ''), ...)
SceneOf(scene_data) == [f \in Fields |-> Get(scene_data, f, Default(f))]

\* what "for scene_data in <val>" runs over: the items of a list, the keys of
\* a dict, the characters of a string; a number raises TypeError
Iterate(val) ==
    CASE val.kind = "list" -> [ok |-> TRUE, items |-> val.v]
      [] val.kind = "dict" ->
            [ok |-> TRUE,
             items |-> SelectSeq([k \in 1..Len(KeyOrder) |-> StrV(KeyOrder[k])],
                                 LAMBDA s : s.v \in DOMAIN val.v)]
      [] val.kind = "str" -> [ok |-> TRUE, items |-> <<StrV("c")>>]
      [] OTHER -> [ok |-> FALSE, items |-> <<>>]

\* a call that returned scs / a call an exception left
Returned(scs) == [raised |-> FALSE, scenes |-> scs]
Raised == [raised |-> TRUE, scenes |-> <<>>]

\* faulty variant: only the JSONDecodeError clause is there
ParseHandler_DecodeOnly(exc) == IF exc = "JSONDecodeError" THEN Returned(<<>>) ELSE Raised

\* except json.JSONDecodeError: return []   except Exception: return []
ParseHandler(exc) == Returned(<<>>)

ParseStoryboardResponse(text) ==
    LET json_start == Find(text, "{")
        json_end == RFind(text, "}") + 1
    IN IF json_start = -1 \/ json_end = 0 THEN Returned(<<>>)
       ELSE LET data == JsonLoads(Slice(text, json_start, json_end))
            IN IF ~data.ok THEN ParseHandler("JSONDecodeError")
               ELSE LET it == Iterate(Get(data.val.v, "scenes", ListV(<<>>)))
                    IN IF ~it.ok THEN ParseHandler("TypeError")
                       ELSE IF \E k \in 1..Len(it.items) : it.items[k].kind # "dict"
                            THEN ParseHandler("AttributeError")
                            ELSE Returned([k \in 1..Len(it.items) |-> SceneOf(it.items[k].v)])

\* ---- generate_storyboard

\* the replies of the LLM endpoint: the request raised; a status other than
\* 200; status 200 without choices[0].message.content; status 200 with a text
Replies ==
    {[raised |-> TRUE, status |-> 0, content |-> FALSE],
     [raised |-> FALSE, status |-> 500, content |-> FALSE],
     [raised |-> FALSE, status |-> 200, content |-> FALSE],
     [raised |-> FALSE, status |-> 200, content |-> TRUE]}

\* except Exception as e: return []   (video_generator.py 160-162)
StoryboardHandler == Returned(<<>>)

GenerateStoryboard(reply, text) ==
    IF reply.raised THEN StoryboardHandler
    ELSE IF reply.status = 200
         THEN IF ~reply.content THEN StoryboardHandler
              ELSE LET r == ParseStoryboardResponse(text)
                   IN IF r.raised THEN StoryboardHandler ELSE r
         ELSE Returned(<<>>)

\* ---- the replies tried

\* the entries a scenes list is made of: a scene with every field, a scene
\* with two fields, a scene with none, and an entry that is not an object
EntryChoices ==
    <<DictV(("scene_id" :> StrV("s1")) @@ ("scene_title" :> StrV("txt"))
            @@ ("scene_description" :> StrV("txt")) @@ ("duration" :> NumV(5))
            @@ ("visual_elements" :> ListV(<<StrV("txt")>>))
            @@ ("text_overlay" :> StrV("txt")) @@ ("background_music" :> StrV("txt"))
            @@ ("transition_effect" :> StrV("txt"))),
      DictV(("scene_id" :> StrV("s2")) @@ ("scene_title" :> StrV("txt"))),
      DictV(EmptyDict),
      NumV(5)>>

\* the sequences over S of length n at most
RECURSIVE SeqsUpTo(_, _)
SeqsUpTo(S, n) ==
    IF n = 0 THEN {<<>>}
    ELSE LET shorter == SeqsUpTo(S, n - 1)
         IN shorter \cup {Append(l, x) : l \in {y \in shorter : Len(y) = n - 1}, x \in S}

ProseTokens == {"p", "{", "}"}

\* what the reply says between its prose: nothing, a payload whose scenes list
\* has the chosen entries, or one of the broken payloads
Bodies ==
    {[kind |-> "payload", entries |-> e] : e \in SeqsUpTo(1..Len(EntryChoices), MaxEntries)}
    \cup {[kind |-> k, entries |-> <<>>] :
             k \in {"none", "unclosed", "no_scenes", "scalar_scenes", "dict_scenes"}}

\* the payload with the chosen entries
Payload(entries) ==
    DictV("scenes" :> ListV([k \in 1..Len(entries) |-> EntryChoices[entries[k]]]))

BodyText(b) ==
    CASE b.kind = "payload" -> RenderValue(Payload(b.entries))
      [] b.kind = "none" -> <<>>
      [] b.kind = "unclosed" -> <<"{", "scenes", "[", "}">>
      [] b.kind = "no_scenes" -> RenderValue(DictV("note" :> StrV("txt")))
      [] b.kind = "scalar_scenes" -> RenderValue(DictV("scenes" :> NumV(5)))
      [] OTHER -> RenderValue(DictV("scenes" :> DictV("note" :> StrV("txt"))))

\* the call ended
Finish(fn, r) ==
    /\ callee' = fn
    /\ spc' = IF r.raised THEN "raised" ELSE "returned"
    /\ storyboard' = r.scenes
    /\ UNCHANGED <<num_scenes, response, response_text, body, prefix, suffix,
                   rlVars, retryVars, wfVars, vidVars, cfgVars, dlVars, pmVars>>

\* _parse_storyboard_response(response_text), called on its own
ParseCall ==
    /\ spc = "call"
    /\ Finish("parse", ParseStoryboardResponse(response_text))

\* generate_storyboard(content, num_scenes)
GenerateCall ==
    /\ spc = "call"
    /\ Finish("generate", GenerateStoryboard(response, response_text))

SBParked ==
    /\ num_scenes = 1
    /\ response = [raised |-> FALSE, status |-> 200, content |-> TRUE]
    /\ response_text = <<>>
    /\ body = [kind |-> "none", entries |-> <<>>]
    /\ prefix = <<>>
    /\ suffix = <<>>
    /\ spc = "call"
    /\ callee = "none"
    /\ storyboard = <<>>

SBStart ==
    /\ num_scenes \in 1..MaxNumScenes
    /\ response \in Replies
    /\ body \in Bodies
    /\ prefix \in SeqsUpTo(ProseTokens, MaxProse)
    /\ suffix \in SeqsUpTo(ProseTokens, MaxProse)
    /\ response.content \/ (body.kind = "none" /\ prefix = <<>> /\ suffix = <<>>)
    /\ response_text = prefix \o BodyText(body) \o suffix
    /\ spc = "call"
    /\ callee = "none"
    /\ storyboard = <<>>

\* =================================================================
\* main and ConfigManager.get_config
\* =================================================================
\* The environment is known by the values of its validated options and by
\* whether the six required keys are all set and LOG_LEVEL is a valid name.

EnumValues == -1..MaxEnum
NumValues == -1..MaxNum

\* _validate_config: does it return (TRUE) or raise ValueError (FALSE)
ValidateConfig(c) ==
    /\ c.note_type \in {0, 1, 2}
    /\ c.sort \in {0, 1, 2}
    /\ ~(c.total_number <= 0)
    /\ c.log_level_valid
    /\ ~(c.request_timeout <= 0)
    /\ ~(c.max_retries < 0)

\* get_config: the required keys are checked, then the values
GetConfig(c) == c.required_set /\ ValidateConfig(c)

\* main, the try block: get_config_dict and print_config_summary both call
\* get_config; a ValueError prints and returns
LoadConfig ==
    /\ mpc = "load"
    /\ mpc' = IF GetConfig(config) THEN "keyword" ELSE "returned"
    /\ UNCHANGED <<config, started, rlVars, retryVars, wfVars, vidVars, sbVars, dlVars, pmVars>>

\* keyword = input(...).strip(); an empty keyword returns, another one
\* starts process_workflow
Keyword(empty) ==
    /\ mpc = "keyword"
    /\ IF empty
       THEN mpc' = "returned" /\ started' = started
       ELSE mpc' = "workflow" /\ started' = TRUE
    /\ UNCHANGED <<config, rlVars, retryVars, wfVars, vidVars, sbVars, dlVars, pmVars>>

\* process_workflow returned and its result is printed
WorkflowReturns ==
    /\ mpc = "workflow"
    /\ mpc' = "returned"
    /\ UNCHANGED <<config, started, rlVars, retryVars, wfVars, vidVars, sbVars, dlVars, pmVars>>

CfgParked ==
    /\ config = [note_type |-> 2, sort |-> 2, total_number |-> 1, default_scene_count |-> 1,
                 request_timeout |-> 1, max_retries |-> 1, log_level_valid |-> TRUE,
                 required_set |-> TRUE]
    /\ mpc = "load"
    /\ started = FALSE

CfgStart ==
    /\ config \in [note_type : EnumValues, sort : EnumValues, total_number : NumValues,
                   default_scene_count : NumValues, request_timeout : NumValues,
                   max_retries : NumValues, log_level_valid : BOOLEAN,
                   required_set : BOOLEAN]
    /\ mpc = "load"
    /\ started = FALSE

\* =================================================================
\* DoubaoSeedanceAPI._download_video
\* =================================================================
\* The clock counts half seconds; the file name carries the time to the second.

\* datetime.now().strftime('%Y%m%d_%H%M%S')
Stamp(t) == t \div 2

\* os.path.join(output_dir, f"{scene_id}_{stamp}.mp4"), output_dir being the same for all
VideoPath(scene_id, t) == [scene_id |-> scene_id, stamp |-> Stamp(t)]

\* one call of _download_video: the file is written when the reply is 200
DownloadVideo(scene_id, ok) ==
    /\ dl_calls < MaxDownloads
    /\ dl_calls' = dl_calls + 1
    /\ dl_written' = IF ok THEN Append(dl_written,
                                        [path |-> VideoPath(scene_id, dl_clock), at |-> dl_clock])
                     ELSE dl_written
    /\ UNCHANGED <<dl_clock, rlVars, retryVars, wfVars, vidVars, sbVars, cfgVars, pmVars>>

\* half a second passes
DlTick ==
    /\ dl_clock < MaxDlClock
    /\ dl_clock' = dl_clock + 1
    /\ UNCHANGED <<dl_calls, dl_written, rlVars, retryVars, wfVars, vidVars, sbVars, cfgVars, pmVars>>

DlParked ==
    /\ dl_clock = 0
    /\ dl_calls = 0
    /\ dl_written = <<>>

DlStart == DlParked

\* =================================================================
\* PerformanceMonitor
\* =================================================================

CheckpointNames == {"a", "b"}
NoSummary == [none |-> TRUE]

\* d[name] = value on a dict: the value of a key already there is replaced
\* where the key stands, a new key goes to the end
DictSet(d, name, value) ==
    IF \E k \in 1..Len(d) : d[k].name = name
    THEN [k \in 1..Len(d) |-> IF d[k].name = name THEN [name |-> name, elapsed |-> value]
                                                  ELSE d[k]]
    ELSE Append(d, [name |-> name, elapsed |-> value])

\* max(self.checkpoints.values())
RECURSIVE MaxElapsed(_)
MaxElapsed(d) ==
    IF Len(d) = 1 THEN d[1].elapsed
    ELSE LET m == MaxElapsed(SubSeq(d, 1, Len(d) - 1))
         IN IF d[Len(d)].elapsed > m THEN d[Len(d)].elapsed ELSE m

\* the loop of get_summary: summary[f"{name}_duration"] = time_elapsed - prev_time
Durations(d) ==
    [k \in 1..Len(d) |->
        [name |-> d[k].name,
         duration |-> d[k].elapsed - (IF k = 1 THEN 0 ELSE d[k - 1].elapsed)]]

\* get_summary
GetSummary(d) ==
    IF d = <<>> THEN [durations |-> <<>>]
    ELSE [durations |-> Durations(d), total_duration |-> MaxElapsed(d)]

\* start()
PmStart ==
    /\ start_time' = pm_clock
    /\ checkpoints' = <<>>
    /\ pm_log' = <<>>
    /\ summary' = NoSummary
    /\ UNCHANGED <<pm_clock, rlVars, retryVars, wfVars, vidVars, sbVars, cfgVars, dlVars>>

\* checkpoint(name)
PmCheckpoint(name) ==
    /\ Len(pm_log) < MaxCheckpoints
    /\ LET st == IF start_time = -1 THEN pm_clock ELSE start_time
           current_time == pm_clock
       IN /\ start_time' = st
          /\ checkpoints' = DictSet(checkpoints, name, current_time - st)
          /\ pm_log' = Append(pm_log, [name |-> name, elapsed |-> current_time - st])
    /\ summary' = NoSummary
    /\ UNCHANGED <<pm_clock, rlVars, retryVars, wfVars, vidVars, sbVars, cfgVars, dlVars>>

\* a call of get_summary
PmGetSummary ==
    /\ summary' = GetSummary(checkpoints)
    /\ UNCHANGED <<pm_clock, start_time, checkpoints, pm_log, rlVars, retryVars, wfVars,
                   vidVars, sbVars, cfgVars, dlVars>>

\* the clock advances by one second
PmTick ==
    /\ pm_clock < MaxPmClock
    /\ pm_clock' = pm_clock + 1
    /\ UNCHANGED <<start_time, checkpoints, pm_log, summary, rlVars, retryVars, wfVars,
                   vidVars, sbVars, cfgVars, dlVars>>

\* the monitor after __init__
PmParked ==
    /\ pm_clock = 0
    /\ start_time = -1
    /\ checkpoints = <<>>
    /\ pm_log = <<>>
    /\ summary = NoSummary

PmStart0 == PmParked

\* =================================================================
\* Specifications
\* =================================================================

RLInit == RLStart /\ RetryParked /\ WFParked /\ VidParked /\ SBParked /\ CfgParked /\ DlParked /\ PmParked

\* calls made one after another: a call starts only when no call is in progress
SeqCall(p) == NoneSleeping /\ Call(p)

RLSeqNext ==
    \/ Tick
    \/ \E p \in Procs : SeqCall(p)
    \/ \E p \in Procs : Wake(p)

\* coroutines interleave at the sleep
RLNext ==
    \/ Tick
    \/ \E p \in Procs : Call(p)
    \/ \E p \in Procs : Wake(p)

RLSeqSpec == RLInit /\ [][RLSeqNext]_vars

\* a call made after the previous one returned, and early enough for its
\* sleep, of time_window + 1 seconds at most, to end while the clock still runs
TimelyCall(p) == clock + time_window + 1 <= MaxClock /\ SeqCall(p)

RLLiveNext ==
    \/ Tick
    \/ \E p \in Procs : TimelyCall(p)
    \/ \E p \in Procs : Wake(p)

\* time passes, and the event loop resumes a coroutine whose sleep is over
RLLiveSpec ==
    /\ RLInit
    /\ [][RLLiveNext]_vars
    /\ WF_vars(Tick)
    /\ \A p \in Procs : WF_vars(Wake(p))
RLSpec == RLInit /\ [][RLNext]_vars

RetryInit == RetryStart /\ RLParked /\ WFParked /\ VidParked /\ SBParked /\ CfgParked /\ DlParked /\ PmParked

RetryNext ==
    \/ RetryBegin
    \/ RetrySucceed
    \/ \E kind \in ExcKinds : RetryFail(kind)
    \/ RetryResume

RetrySpec == RetryInit /\ [][RetryNext]_vars

WFInit == WFStart /\ RLParked /\ RetryParked /\ VidParked /\ SBParked /\ CfgParked /\ DlParked /\ PmParked

WFNext ==
    \/ SearchRaise
    \/ \E n \in 0..MaxItems : Search(n)
    \/ \E o \in StageOutcomes : Fetch(o)
    \/ \E o \in StageOutcomes : Rewrite(o)
    \/ \E o \in StageOutcomes : Video(o)
    \/ \E o \in PersistOutcomes : Persist1(o)
    \/ \E o \in PersistOutcomes : Persist2(o)

WFSpec == WFInit /\ [][WFNext]_vars

\* every collaborator call eventually returns or raises
WFFairSpec == WFSpec /\ WF_vars(WFNext)

VidInit == VidStart /\ RLParked /\ RetryParked /\ WFParked /\ SBParked /\ CfgParked /\ DlParked /\ PmParked

VidNext ==
    \/ \E scs \in SceneLists(MaxScenes) : Decompose(scs)
    \/ \E o \in SynthOutcomes : Synthesize(o)

VideoSpec == VidInit /\ [][VidNext]_vars

SBInit == SBStart /\ RLParked /\ RetryParked /\ WFParked /\ VidParked /\ CfgParked /\ DlParked /\ PmParked

SBNext ==
    \/ ParseCall
    \/ GenerateCall

StoryboardSpec == SBInit /\ [][SBNext]_vars

CfgInit == CfgStart /\ RLParked /\ RetryParked /\ WFParked /\ VidParked /\ SBParked /\ DlParked /\ PmParked

CfgNext ==
    \/ LoadConfig
    \/ \E empty \in BOOLEAN : Keyword(empty)
    \/ WorkflowReturns

ConfigSpec == CfgInit /\ [][CfgNext]_vars

DlInit == DlStart /\ RLParked /\ RetryParked /\ WFParked /\ VidParked /\ SBParked /\ CfgParked /\ PmParked

DlNext ==
    \/ DlTick
    \/ \E id \in SceneIds : \E ok \in BOOLEAN : DownloadVideo(id, ok)

DownloadSpec == DlInit /\ [][DlNext]_vars

PmInit == PmStart0 /\ RLParked /\ RetryParked /\ WFParked /\ VidParked /\ SBParked /\ CfgParked
             /\ DlParked

PmNext ==
    \/ PmTick
    \/ PmStart
    \/ \E name \in CheckpointNames : PmCheckpoint(name)
    \/ PmGetSummary

PerfSpec == PmInit /\ [][PmNext]_vars

\* Cancellation.  A call of execute_with_retry on an operation that keeps
\* failing is cancelled in its backoff sleep; then coroutines use a limiter,
\* and a caller asleep in wait_if_needed may be cancelled too.  The handler and
\* the limiter share no state, so running one after the other loses no
\* interleaving.  A call of wait_if_needed starts while at most one other
\* caller is asleep: the sleeper the cancellation is about.
CancelRetryStart ==
    /\ max_retries = 1
    /\ attempt = 0
    /\ last_exception = NoException
    /\ rpc = "start"
    /\ outcome = NoOutcome
    /\ opFails = 0
    /\ opAlways = TRUE
    /\ opValue = "v1"
    /\ invocations = 0
    /\ thrown = <<>>
    /\ base_delay = 1
    /\ backoff_factor = 1
    /\ total_delay = 0
    /\ sleeps = 0

\* at most one coroutine is asleep in wait_if_needed
FewSleeping == Cardinality({q \in Procs : lpc[q] = "sleeping"}) <= 1

CancelInit == RLStart /\ CancelRetryStart /\ WFParked /\ VidParked /\ SBParked /\ CfgParked
                /\ DlParked /\ PmParked

CancelNext ==
    \/ RetryBegin
    \/ RetryFail("transient")
    \/ RetryResume
    \/ RetryCancel
    \/ rpc = "cancelled" /\ Tick
    \/ \E p \in Procs : rpc = "cancelled" /\ FewSleeping /\ Call(p)
    \/ \E p \in Procs : rpc = "cancelled" /\ Wake(p)
    \/ \E p \in Procs : rpc = "cancelled" /\ Cancel(p)

CancelSpec == CancelInit /\ [][CancelNext]_vars

Spec == RLSpec

\* =================================================================
\* Claims
\* =================================================================

\* C1: under sequential calls, at every admission the number of recorded
\* timestamps younger than time_window (the new one included) is at most
\* max_requests, and no trailing time_window-second window holds more than
\* max_requests admissions.
C1_SeqWindowBound ==
    /\ Len(Purge(requests, clock)) <= max_requests
    /\ Len(admitted) <= max_requests

\* C1 witness: a burst met the limit: the window is full and a caller had to wait
C1_Witness ==
    /\ Len(admitted) = max_requests
    /\ \E p \in Procs : lpc[p] = "sleeping"

\* C2: with interleaved callers the number of admissions inside any sliding
\* time_window-second interval is at most max_requests.
C2_ConcWindowBound == Len(admitted) <= max_requests

RetryDone == rpc \in {"returned", "raised"}

\* C3: an operation that fails exactly m <= max_retries times and then succeeds:
\* execute_with_retry returns the operation's value and the operation has been
\* invoked exactly m + 1 times.
C3_ReturnsAfterMFailures ==
    (~opAlways /\ opFails <= max_retries)
        => /\ invocations <= opFails + 1
           /\ RetryDone => /\ outcome = [how |-> "returned", value |-> opValue]
                           /\ invocations = opFails + 1

\* C3 witness: success on the last attempt allowed, after max_retries >= 1 failures
C3_Witness ==
    /\ rpc = "returned"
    /\ ~opAlways
    /\ max_retries >= 1
    /\ opFails = max_retries
    /\ Len(thrown) = max_retries

\* C4: an operation that always fails is invoked exactly max_retries + 1 times,
\* and execute_with_retry then raises the failure of the last invocation itself.
C4_RaisesLastFailure ==
    opAlways
        => /\ invocations <= max_retries + 1
           /\ RetryDone => /\ invocations = max_retries + 1
                           /\ Len(thrown) = max_retries + 1
                           /\ outcome = [how |-> "raised", exc |-> thrown[Len(thrown)]]

\* C4 witness: retries exhausted after failures of different kinds
C4_Witness ==
    /\ rpc = "raised"
    /\ opAlways
    /\ max_retries >= 1
    /\ thrown[1].kind # thrown[Len(thrown)].kind

\* ---- process_workflow: what the histories say about an item

Items == 1..Len(notes)
StageOrder == <<"fetch", "rewrite", "video", "persist1", "persist2">>
Failed(o) == o \in {"fail", "raise"}

\* the items whose loop iteration is over
FinishedCount == IF wpc \in {"returned", "raised"} THEN Len(notes) ELSE idx - 1
Finished(i) == i <= FinishedCount

\* how many entries of results belong to item i
ResultCount(i) == Cardinality({k \in 1..Len(results) : results[k].note_id = notes[i]})

\* no stage after the k-th was invoked for item i
NothingAfter(i, k) == \A j \in (k + 1)..Len(StageOrder) : out[i][StageOrder[j]] = "-"

\* the ItemResult item i's own stage outcomes call for
OwnResult(i) ==
    ItemResult(notes[i], VideoDict(out[i].video), out[i].persist1 = "ok",
               out[i].persist2 = "ok")

\* the results the first m items call for, each judged by its own outcomes alone
RECURSIVE OwnResults(_)
OwnResults(m) ==
    IF m = 0 THEN <<>>
    ELSE IF out[m].fetch = "ok" /\ out[m].rewrite = "ok"
         THEN Append(OwnResults(m - 1), OwnResult(m))
         ELSE OwnResults(m - 1)

\* an item completed its pipeline: its videos were synthesized or both records persisted
Completed(i) ==
    \/ out[i].video = "ok"
    \/ out[i].persist1 = "ok" /\ out[i].persist2 = "ok"

\* the skip-records of a report: the dict returned at main.py 476-480 has the
\* keys success, message and results, and no other
SkipRecords(r) == IF "skipped" \in DOMAIN r THEN r.skipped ELSE <<>>

\* C5: the run-level success flag is true if and only if at least one
\* discovered item completed its pipeline; a run in which every item is
\* skipped reports success = false.
C5_SuccessIffItemCompleted ==
    wpc = "returned" => (report.success <=> \E i \in Items : Completed(i))

\* C6: an item that fails or raises does not stop the run: every later item
\* is still fetched, every item's ItemResult is the one its own stage outcomes
\* call for, and the run reports success with those results.
C6_ItemIsolation ==
    /\ notes # <<>> => results = OwnResults(FinishedCount)
    /\ (wpc = "returned" /\ notes # <<>>)
          => /\ \A i \in Items : out[i].fetch # "-"
             /\ report = [success |-> TRUE, message |-> <<"processed", Len(results)>>,
                          results |-> results]

\* C6 witness: three items, the second one's fetch fails, the first and the
\* third are in the report and the run succeeded
C6_Witness ==
    /\ wpc = "returned"
    /\ Len(notes) = 3
    /\ out[2].fetch = "fail"
    /\ report.success
    /\ Len(report.results) = 2
    /\ report.results[1].note_id = 1
    /\ report.results[2].note_id = 3

\* C7 (as claimed): a failure of any stage ends the item's processing: no later
\* stage is invoked for an item after a stage of it failed.
C7_AnyFailureSkips ==
    \A i \in Items : \A k \in 1..Len(StageOrder) :
        Failed(out[i][StageOrder[k]]) => NothingAfter(i, k)

\* C7 (amended): an item passes fetch and rewrite only on success, and a failed
\* fetch or rewrite ends its processing; a failed video stage or a failed raw
\* persistence does not: both persistence calls are still made.
C7_FetchRewriteGate ==
    \A i \in Items :
        /\ out[i].rewrite # "-" => out[i].fetch = "ok"
        /\ out[i].video # "-" => out[i].rewrite = "ok"
        /\ out[i].persist1 # "-" => out[i].video # "-"
        /\ out[i].persist2 # "-" => out[i].persist1 # "-"
        /\ Failed(out[i].fetch) => NothingAfter(i, 1)
        /\ Failed(out[i].rewrite) => NothingAfter(i, 2)
        /\ (Finished(i) /\ out[i].video # "-")
              => out[i].persist1 # "-" /\ out[i].persist2 # "-"

\* C7 witness: one item stopped at its failed fetch, another went through both
\* persistence calls after its video stage and its raw persistence failed
C7_Witness ==
    \E i, j \in Items :
        /\ Finished(i) /\ Finished(j)
        /\ out[i].fetch = "fail" /\ out[i].rewrite = "-"
        /\ out[j].video = "fail" /\ out[j].persist1 = "fail" /\ out[j].persist2 # "-"

\* C8: the results hold exactly one ItemResult for an item if and only if its
\* fetch and its rewrite succeeded; an item stopped at fetch or rewrite has no
\* ItemResult and no later stage call; whatever the video stage and the two
\* persistence calls did, an item past rewrite has exactly one.
C8_ResultIffFetchedAndRewritten ==
    /\ \A i \in Items :
        /\ ResultCount(i) =
              IF Finished(i) /\ out[i].fetch = "ok" /\ out[i].rewrite = "ok" THEN 1 ELSE 0
        /\ out[i].fetch # "ok" => NothingAfter(i, 1)
        /\ out[i].rewrite # "ok" => NothingAfter(i, 2)
    /\ (wpc = "returned" /\ notes # <<>>) => report.results = results

\* C8 witness: an item whose video stage raised and whose two persistence calls
\* failed has its ItemResult; an item whose rewrite returned nothing has none
C8_Witness ==
    /\ wpc = "returned"
    /\ \E i, j \in Items :
        /\ out[i].video = "raise" /\ out[i].persist1 = "fail" /\ out[i].persist2 = "fail"
        /\ ResultCount(i) = 1
        /\ out[j].fetch = "ok" /\ out[j].rewrite = "fail"
        /\ ResultCount(j) = 0

\* C9: the report holds a skip-record for every discovered item without an
\* ItemResult, so ItemResults + skip-records = discovered items.
C9_SkipRecordPerSkippedItem ==
    (wpc = "returned" /\ notes # <<>>)
        => Len(report.results) + Len(SkipRecords(report)) = Len(notes)

\* C10: process_workflow always terminates by returning a report with a
\* success flag and a message, whatever the stages return or raise; no
\* exception leaves it.
C10_AlwaysReturnsReport ==
    /\ <>(wpc = "returned" /\ {"success", "message"} \subseteq DOMAIN report)
    /\ [](wpc # "raised")

\* C10 witness: a report came back from a run in which a fetch and a video
\* stage raised
C10_Witness ==
    /\ wpc = "returned"
    /\ {"success", "message"} \subseteq DOMAIN report
    /\ \E i, j \in Items : out[i].fetch = "raise" /\ out[j].video = "raise"

\* C20: the delay slept before attempt k (1-indexed, k > 1) is
\* d = base_delay * backoff_factor^(k-2) plus a jitter of 0.1 to 0.3 times d:
\* it lies in [1.1 d, 1.3 d].
C20_BackoffDelay ==
    rpc = "sleeping"
        => LET k == invocations + 1
               d == base_delay * Pow(backoff_factor, k - 2)
           IN /\ k > 1
              /\ 11 * d <= total_delay
              /\ total_delay <= 13 * d

\* C20 witness: the sleep before the third attempt, with backoff_factor 2: d is
\* twice the base delay
C20_Witness ==
    /\ rpc = "sleeping"
    /\ invocations = 2
    /\ backoff_factor = 2
    /\ base_delay = 2
    /\ total_delay = 52

\* ---- process_workflow: what the call history says

\* the calls made for item i, in the order they were made
CallsFor(i) == SelectSeq(calls, LAMBDA c : c.note = notes[i])

\* the persistence calls made for item i
PersistCallsFor(i) == SelectSeq(CallsFor(i), LAMBDA c : c.stage \in {"persist1", "persist2"})

\* item i reached persistence: it went past its video stage
ReachedPersistence(i) == out[i].video # "-"

\* C17 (as claimed): every stage call process_workflow makes is made after a
\* RateLimiter admission and through the retry executor: the limiter has
\* recorded a request, and the executor has made an invocation, for every
\* call in the history.
C17_StageCallsLimitedAndRetried ==
    /\ Len(calls) <= Len(requests)
    /\ Len(calls) <= invocations

\* the aggregated scene counts of a report: the dict returned at main.py 476-480
\* has the keys success, message and results, and no other
HasSceneCounts(r) == {"total_scenes", "successful", "failed"} \subseteq DOMAIN r

\* C18 (as claimed): the report carries scene counts aggregated across the
\* items, and they partition the scenes: total_scenes = successful + failed.
C18_AggregatedSceneCounts ==
    (wpc = "returned" /\ notes # <<>>)
        => /\ HasSceneCounts(report)
           /\ report.total_scenes = report.successful + report.failed

\* C19: for every item that reaches persistence, the raw-record call and the
\* derived-record call are each made exactly once, in that order, whatever the
\* video stage and the first call did; original_saved and processed_saved of
\* its ItemResult are the values the two calls returned.
C19_BothPersistCallsOnceInOrder ==
    \A i \in Items :
        LET pc == PersistCallsFor(i)
        IN /\ Len(pc) <= 2
           /\ Len(pc) >= 1 => (pc[1].stage = "persist1" /\ ReachedPersistence(i))
           /\ Len(pc) = 2 => pc[2].stage = "persist2"
           /\ (Finished(i) /\ ReachedPersistence(i))
                 => /\ Len(pc) = 2
                    /\ \E k \in 1..Len(results) :
                          /\ results[k].note_id = notes[i]
                          /\ results[k].original_saved = (pc[1].ret = "ok")
                          /\ results[k].processed_saved = (pc[2].ret = "ok")
                    /\ \A k \in 1..Len(results) :
                          results[k].note_id = notes[i]
                              => /\ results[k].original_saved = (pc[1].ret = "ok")
                                 /\ results[k].processed_saved = (pc[2].ret = "ok")

\* C19 witness: an item whose video stage failed and whose raw-record call
\* failed still had its derived-record call, which succeeded, and the flags
\* of its ItemResult say so
C19_Witness ==
    \E i \in Items :
        /\ Finished(i)
        /\ out[i].video = "fail"
        /\ PersistCallsFor(i) = <<StageCall(notes[i], "persist1", "fail"),
                                  StageCall(notes[i], "persist2", "ok")>>
        /\ \E k \in 1..Len(results) :
              /\ results[k].note_id = notes[i]
              /\ ~results[k].original_saved
              /\ results[k].processed_saved

\* ---- process_video_workflow

\* C11: the video_results of the returned report hold exactly one outcome per
\* scene, in scene order: as many as there are scenes, the n-th with the n-th
\* scene's scene_id, whichever scenes succeeded or failed.
C11_OneOutcomePerSceneInOrder ==
    (vpc = "returned" /\ scenes # <<>>)
        => /\ Len(vreport.video_results) = Len(scenes)
           /\ \A n \in 1..Len(scenes) :
                 vreport.video_results[n].scene_id = scenes[n].scene_id

\* C11 witness: three scenes, the second one's synthesis failed, the first
\* and the third succeeded, and the report is back
C11_Witness ==
    /\ vpc = "returned"
    /\ Len(scenes) = 3
    /\ scenes[1].scene_id # scenes[2].scene_id
    /\ Len(vreport.video_results) = 3
    /\ vreport.video_results[1].status = "success"
    /\ vreport.video_results[2].status = "failed"
    /\ vreport.video_results[3].status = "success"

\* C12: a failed synthesis does not end the item's loop: when the report is
\* back, generate_video was called exactly once for every scene, in order,
\* and each scene's result is the one its own call produced, whatever the
\* other scenes' calls did; while the loop runs, the calls made so far are
\* those of the scenes before the current one.
C12_NoShortCircuit ==
    /\ vpc = "synth"
          => /\ Len(synth_log) = vidx - 1
             /\ Len(video_results) = vidx - 1
    /\ (vpc = "returned" /\ scenes # <<>>) => Len(synth_log) = Len(scenes)
    /\ \A k \in 1..Len(synth_log) :
          /\ synth_log[k].pos = k
          /\ k <= Len(video_results)
          /\ video_results[k] = GenerateVideo(scenes[k], synth_log[k].outcome)

\* C12 witness: the first scene's call failed with a non-200 status, the
\* second raised, and the third was still made and succeeded
C12_Witness ==
    /\ vpc = "returned"
    /\ Len(synth_log) = 3
    /\ synth_log[1].outcome = "non200"
    /\ synth_log[2].outcome = "exception"
    /\ synth_log[3].outcome = "success"
    /\ vreport.video_results[3].status = "success"

\* ---- generate_storyboard and _parse_storyboard_response

\* the reply holds exactly one well-formed payload: an object whose scenes
\* list is made of objects
WellFormedPayload ==
    /\ body.kind = "payload"
    /\ \A k \in 1..Len(body.entries) : EntryChoices[body.entries[k]].kind = "dict"

\* the prose around the payload has no brace
PlainProse ==
    /\ \A k \in 1..Len(prefix) : prefix[k] = "p"
    /\ \A k \in 1..Len(suffix) : suffix[k] = "p"

\* the k-th entry of the payload, as the dict it is
EntryDict(k) == EntryChoices[body.entries[k]].v

\* C13 (as claimed): for every response text that holds exactly one
\* well-formed payload within arbitrary prose, _parse_storyboard_response
\* returns the scenes of that payload: as many, in the same order, with the
\* field values the payload gives.
C13_PayloadExtractedFromAnyProse ==
    (spc = "returned" /\ callee = "parse" /\ WellFormedPayload)
        => /\ Len(storyboard) = Len(body.entries)
           /\ \A k \in 1..Len(body.entries) :
                 \A f \in Fields \cap DOMAIN EntryDict(k) :
                    storyboard[k][f] = EntryDict(k)[f]

\* C14: _parse_storyboard_response and generate_storyboard never raise, and a
\* reply without payload, with a malformed payload, with a payload of the
\* wrong shape, with a status other than 200, and a request that raised, each
\* give the empty list.
C14_NeverRaisesEmptyOnFailure ==
    /\ spc # "raised"
    /\ (spc = "returned" /\ ~WellFormedPayload) => storyboard = <<>>
    /\ (spc = "returned" /\ callee = "generate"
          /\ (response.raised \/ response.status # 200 \/ ~response.content))
          => storyboard = <<>>

\* C14 witness: the direct call came back empty from a payload whose scenes
\* list holds an entry that is not an object
C14_Witness ==
    /\ spc = "returned"
    /\ callee = "parse"
    /\ body.kind = "payload"
    /\ \E k \in 1..Len(body.entries) : EntryChoices[body.entries[k]].kind # "dict"
    /\ storyboard = <<>>

\* C15 (as claimed): generate_storyboard never returns more scenes than were
\* asked for.
C15_AtMostRequestedCount ==
    (spc = "returned" /\ callee = "generate") => Len(storyboard) <= num_scenes

\* C16: from a well-formed payload of n entries, within prose without braces,
\* _parse_storyboard_response returns exactly n scenes; a field an entry
\* lacks is '' in its scene, visual_elements is [], duration is 8.
C16_AbsentFieldsTakeDefaults ==
    (spc = "returned" /\ callee = "parse" /\ WellFormedPayload /\ PlainProse)
        => /\ Len(storyboard) = Len(body.entries)
           /\ \A k \in 1..Len(body.entries) :
                 /\ DOMAIN storyboard[k] = Fields
                 /\ \A f \in Fields \ DOMAIN EntryDict(k) :
                       storyboard[k][f] =
                          IF f = "duration" THEN NumV(8)
                          ELSE IF f = "visual_elements" THEN ListV(<<>>)
                          ELSE StrV("")
                 /\ \A f \in Fields \cap DOMAIN EntryDict(k) :
                       storyboard[k][f] = EntryDict(k)[f]

\* C16 witness: a payload of two entries, the first with every field, the
\* second with none: two scenes, the second with duration 8
C16_Witness ==
    /\ spc = "returned"
    /\ callee = "parse"
    /\ WellFormedPayload /\ PlainProse
    /\ Len(body.entries) = 2
    /\ DOMAIN EntryDict(1) = Fields
    /\ DOMAIN EntryDict(2) = {}
    /\ Len(storyboard) = 2
    /\ storyboard[1]["duration"] = NumV(5)
    /\ storyboard[2]["duration"] = NumV(8)
    /\ storyboard[2]["visual_elements"] = ListV(<<>>)

\* ---- execute_with_retry: what does not depend on the kinds of the failures

\* the operation fails on more invocations than the loop makes
Exhausts == opAlways \/ opFails > max_retries

\* C21: every kind of failure is treated alike: whatever the kinds of the
\* failures raised, the number of invocations, the delay slept after the
\* n-th failure and the kind of the final outcome are those the attempts on
\* which the operation fails call for.
C21_FailureKindsAlike ==
    /\ invocations <= (IF Exhausts THEN max_retries + 1 ELSE opFails + 1)
    /\ RetryDone
          => /\ invocations = (IF Exhausts THEN max_retries + 1 ELSE opFails + 1)
             /\ outcome.how = (IF Exhausts THEN "raised" ELSE "returned")
             /\ Len(thrown) = (IF Exhausts THEN max_retries + 1 ELSE opFails)
    /\ rpc = "sleeping"
          => /\ Len(thrown) = invocations
             /\ \E jitter \in JitterTenths :
                   total_delay = (10 + jitter) * base_delay
                                    * Pow(backoff_factor, Len(thrown) - 1)

\* C21 witness: the call returned after a transient, a permanent and a
\* malformed-response failure, in a run with three retries
C21_Witness ==
    /\ rpc = "returned"
    /\ max_retries = 3
    /\ Len(thrown) = 3
    /\ thrown[1].kind = "transient"
    /\ thrown[2].kind = "permanent"
    /\ thrown[3].kind = "malformed"

\* ---- wait_if_needed: delays

\* C22: wait_if_needed never rejects: a call that suspends returns, no call
\* suspends more than once, and a step in which a call returns (out of its
\* sleep, or at once) appends exactly one timestamp, the instant of the
\* return, to the purged list.
C22_NeverRejects ==
    /\ \A p \in Procs : [](lpc[p] = "sleeping" => <>(lpc[p] = "idle"))
    /\ [](\A p \in Procs : naps[p] <= 1)
    /\ [][((\E p \in Procs : lpc[p] = "sleeping" /\ lpc'[p] = "idle")
               \/ (lpc' = lpc /\ requests' # requests))
             => requests' = Append(Purge(requests, clock), clock)]_vars

\* C22 witness: with max_requests = 1 a call suspended once and has returned,
\* its timestamp the only one on the list
C22_Witness ==
    \E p \in Procs :
        /\ max_requests = 1
        /\ lpc[p] = "idle"
        /\ naps[p] = 1
        /\ requests = <<clock>>

\* C23 (as claimed): a call sleeps no longer than until the oldest unexpired
\* timestamp is time_window seconds old, and it sleeps only when max_requests
\* timestamps are unexpired.
C23_SleepsOnlyAsLongAsNecessary ==
    \A p \in Procs :
        lpc[p] = "sleeping"
            => /\ Len(requests) >= max_requests
               /\ wake[p] - call_info[p].now
                     <= time_window - (call_info[p].now - requests[1])

\* C24 (as claimed): a call made when the oldest recorded timestamp is
\* time_window seconds old or older applies no delay.
C24_NoDelayWhenOldestExpired ==
    \A p \in Procs :
        (lpc[p] = "sleeping" /\ call_info[p].oldest >= 0)
            => call_info[p].now - call_info[p].oldest < time_window

\* ---- generate_video: the outcome record

\* C25 (as claimed): every outcome generate_video returns has status success
\* or failed, and a success carries the artifact URL, the local artifact path
\* and the elapsed time, none of them null.
C25_SuccessCarriesUrlPathAndTime ==
    \A k \in 1..Len(video_results) :
        LET r == video_results[k]
        IN /\ r.status \in {"success", "failed"}
           /\ r.status = "success"
                 => /\ r.video_url # "none"
                    /\ r.video_path # "none"
                    /\ r.generation_time # "none"

\* ---- configuration

\* an enumerated option outside its range, or a numeric option that is not positive
InvalidConfig ==
    \/ config.note_type \notin {0, 1, 2}
    \/ config.sort \notin {0, 1, 2}
    \/ config.total_number <= 0
    \/ config.default_scene_count <= 0
    \/ config.request_timeout <= 0
    \/ config.max_retries <= 0

\* C26 (as claimed): with an enumerated option outside its range or a
\* non-positive numeric option, configuration loading fails and main returns
\* before process_workflow is called.
C26_InvalidConfigFailsFast == InvalidConfig => ~started

\* ---- artifact paths

\* C29 (as claimed): any two downloads write to distinct local paths.
C29_ArtifactPathsUnique ==
    \A i, j \in 1..Len(dl_written) :
        i # j => dl_written[i].path # dl_written[j].path

\* ---- process_workflow: the order of the stage calls

\* C27: within one item the stage calls occur in pipeline order, one at a
\* time and none twice: the calls made for an item are the first calls of
\* fetch, rewrite, video stage, raw persistence, derived persistence, the call
\* in progress is the one after them, and an item that went past its video
\* stage ends with all five.
C27_StagesInPipelineOrder ==
    /\ \A i \in Items :
          LET c == CallsFor(i)
          IN /\ Len(c) <= Len(StageOrder)
             /\ \A k \in 1..Len(c) : c[k].stage = StageOrder[k]
             /\ (Finished(i) /\ ReachedPersistence(i)) => Len(c) = Len(StageOrder)
    /\ wpc \in {"fetch", "rewrite", "video", "persist1", "persist2"}
          => wpc = StageOrder[Len(CallsFor(idx)) + 1]

\* C27 witness: an item whose five stage calls were made, its video stage
\* having failed
C27_Witness ==
    \E i \in Items :
        /\ Finished(i)
        /\ Len(CallsFor(i)) = 5
        /\ CallsFor(i)[3] = StageCall(notes[i], "video", "fail")
        /\ CallsFor(i)[5].stage = "persist2"

\* ---- process_video_workflow: durations

\* C28: the duration of the synthesis request built for a scene is the
\* scene's duration, and the scene's entry of the report carries the same
\* value.
C28_DurationPassedThrough ==
    /\ \A k \in 1..Len(synth_log) : synth_log[k].duration = scenes[synth_log[k].pos].duration
    /\ (vpc = "returned" /\ scenes # <<>>)
          => /\ Len(vreport.scenes) = Len(scenes)
             /\ \A k \in 1..Len(scenes) : vreport.scenes[k].duration = scenes[k].duration

\* C28 witness: the report is back for two scenes of durations 5 and 8, and
\* the two requests asked for 5 and 8 seconds
C28_Witness ==
    /\ vpc = "returned"
    /\ Len(scenes) = 2
    /\ scenes[1].duration = 5
    /\ scenes[2].duration = 8
    /\ synth_log[1].duration = 5
    /\ synth_log[2].duration = 8
    /\ vreport.scenes[2].duration = 8

\* ---- generate_storyboard: scene identifiers

\* C30 (as claimed): the scene identifiers of a sequence generate_storyboard
\* returns are pairwise distinct.
C30_SceneIdsDistinct ==
    (spc = "returned" /\ callee = "generate")
        => \A i, j \in 1..Len(storyboard) :
              i # j => storyboard[i]["scene_id"] # storyboard[j]["scene_id"]

\* ---- RateLimiter: the order and the content of the window

\* C34: under sequential or interleaved callers and a clock that never goes
\* back, the timestamp list is in non-decreasing order, so requests[0] is the
\* oldest recorded timestamp.
C34_RequestsSorted ==
    /\ \A i, j \in 1..Len(requests) : i < j => requests[i] <= requests[j]
    /\ \A i \in 1..Len(requests) : requests[1] <= requests[i]

\* C34 witness: a caller slept while another recorded a request, then woke
\* and recorded its own, later one
C34_Witness ==
    /\ \E p \in Procs : naps[p] = 1 /\ lpc[p] = "idle"
    /\ Len(requests) >= 2
    /\ requests[1] < requests[Len(requests)]
    /\ requests[Len(requests)] = clock

\* C35: no update of the window is lost: every admission still inside the
\* trailing window is in the list, in admission order, whoever made it and
\* whoever slept meanwhile; what the list holds beside them are admissions
\* that have aged W seconds or more since its last purge.
C35_NoLostUpdate ==
    SelectSeq(requests, LAMBDA t : clock - t < time_window) = admitted

\* C35 witness: two coroutines, one woke from its sleep after the other had
\* recorded a request, and both requests are in the list
C35_Witness ==
    /\ \E p, q \in Procs :
          /\ p # q
          /\ naps[p] = 1 /\ lpc[p] = "idle"
          /\ naps[q] = 0 /\ lpc[q] = "idle"
    /\ Len(admitted) >= 2
    /\ Len(requests) >= 2
    /\ time_window >= 2

\* ---- execute_with_retry: where it sleeps

\* C36: execute_with_retry sleeps only between attempts: while it sleeps the
\* latest invocation has failed and another one is still to come, it has
\* not slept before the first attempt, and once it has returned or raised
\* the number of sleeps is the number of invocations minus one.
C36_SleepsOnlyBetweenAttempts ==
    /\ invocations = 0 => sleeps = 0
    /\ rpc = "sleeping" =>
          /\ sleeps = invocations
          /\ Len(thrown) = invocations
          /\ attempt + 1 < RangeEnd
    /\ rpc = "try" => sleeps = invocations
    /\ rpc \in {"returned", "raised"} => sleeps = invocations - 1
    /\ [][(rpc = "sleeping" /\ rpc' # "sleeping") => rpc' = "try"]_vars
    /\ [][sleeps' # sleeps => (rpc = "try" /\ rpc' = "sleeping" /\ Len(thrown') = Len(thrown) + 1)]_vars

\* C36 witness: three failed attempts, each followed by a sleep, then the
\* last attempt fails and the failure is raised without a further sleep
C36_Witness ==
    /\ rpc = "raised"
    /\ max_retries = 3
    /\ invocations = 4
    /\ sleeps = 3

\* ---- process_workflow: the order of the results, and a search without notes

\* the position of a note in the list search_notes returned
PosOf(note_id) == CHOOSE i \in Items : notes[i] = note_id

\* C32: the results are an order-preserving subsequence of the discovered
\* items: every result belongs to a discovered item, a result of an earlier
\* item precedes that of a later one, no item has two, and the report
\* returned at the end carries this list.
C32_ResultsInDiscoveryOrder ==
    /\ \A k \in 1..Len(results) : \E i \in Items : notes[i] = results[k].note_id
    /\ \A k, l \in 1..Len(results) :
          k < l => PosOf(results[k].note_id) < PosOf(results[l].note_id)
    /\ \A i \in Items : ResultCount(i) <= 1
    /\ (wpc = "returned" /\ "results" \in DOMAIN report) => report.results = results

\* C32 witness: of three items the second was skipped, and the report holds
\* the results of the first and the third, in this order
C32_Witness ==
    /\ wpc = "returned"
    /\ Len(notes) = 3
    /\ Failed(out[2].fetch)
    /\ "results" \in DOMAIN report
    /\ Len(report.results) = 2
    /\ report.results[1].note_id = notes[1]
    /\ report.results[2].note_id = notes[3]

\* the search returned, and returned no note
SearchFoundNothing ==
    /\ wpc = "returned"
    /\ notes = <<>>
    /\ calls # <<>>
    /\ calls[1] = StageCall(0, "search", "ok")

\* C37: when the search returns no items, process_workflow returns a report
\* with success = false and a message, without results, and has called no
\* stage but the search.
C37_EmptySearchReportsFailure ==
    SearchFoundNothing =>
        /\ report.success = FALSE
        /\ "message" \in DOMAIN report
        /\ "results" \notin DOMAIN report
        /\ calls = <<StageCall(0, "search", "ok")>>

\* C37 witness: the search returned an empty list and the report is back
C37_Witness ==
    /\ SearchFoundNothing
    /\ report = EmptyReport

\* ---- process_video_workflow: the success flag

\* C38: process_video_workflow reports success = true exactly when at least
\* one scene's outcome has status success; when the decomposition yields no
\* scenes it returns success = false without a synthesis call; and what it
\* hands to the orchestrator is always a report, never an exception.
C38_SuccessIffSomeSceneSucceeded ==
    /\ vpc \in {"decompose", "synth", "returned"}
    /\ vpc = "returned" =>
          /\ "success" \in DOMAIN vreport
          /\ vreport.success <=>
                \E k \in 1..Len(synth_log) :
                    GenerateVideo(scenes[synth_log[k].pos], synth_log[k].outcome).status = "success"
          /\ scenes = <<>> => (vreport.success = FALSE /\ synth_log = <<>>)

\* C38 witness: of two scenes the first failed and the second succeeded, and
\* the report says success
C38_Witness ==
    /\ vpc = "returned"
    /\ Len(scenes) = 2
    /\ Len(synth_log) = 2
    /\ synth_log[1].outcome = "non200"
    /\ synth_log[2].outcome = "success"
    /\ vreport.success = TRUE

\* ---- PerformanceMonitor: the durations of the summary

RECURSIVE SumDurations(_)
SumDurations(ds) ==
    IF ds = <<>> THEN 0 ELSE ds[Len(ds)].duration + SumDurations(SubSeq(ds, 1, Len(ds) - 1))

\* the latest checkpoint call made under a name
LatestCall(name) ==
    CHOOSE j \in 1..Len(pm_log) :
        /\ pm_log[j].name = name
        /\ \A l \in (j + 1)..Len(pm_log) : pm_log[l].name # name

\* C33 (as claimed): for any sequence of start and checkpoint calls, names
\* reused or not, every <name>_duration of get_summary is the time between
\* that checkpoint and the checkpoint recorded immediately before it (the
\* start, for the first), so every duration is non-negative and the durations
\* sum to total_duration.
C33_DurationsBetweenCheckpoints ==
    ("total_duration" \in DOMAIN summary) =>
        /\ \A k \in 1..Len(summary.durations) :
              LET e == summary.durations[k]
                  j == LatestCall(e.name)
              IN /\ e.duration = pm_log[j].elapsed - (IF j = 1 THEN 0 ELSE pm_log[j - 1].elapsed)
                 /\ e.duration >= 0
        /\ SumDurations(summary.durations) = summary.total_duration

\* ---- cancellation in a sleep

\* the step is the cancellation of p's call of wait_if_needed
CancelStep(p) == lpc[p] = "sleeping" /\ lpc'[p] = "cancelled"

\* C31: cancelling a caller suspended in wait_if_needed or in the backoff
\* sleep of execute_with_retry leaves the shared state as it was: the
\* cancellation changes neither the limiter's list nor its parameters, the
\* list holds, inside the window, the timestamps of the admitted requests and
\* no other (none for an abandoned request), and the handler's parameters are
\* the ones it had; so later callers are treated as if the cancelled call had
\* never been made.
C31_CancellationLeavesStateIntact ==
    /\ [][\A p \in Procs : CancelStep(p) =>
              UNCHANGED <<requests, admitted, max_requests, time_window>>]_vars
    /\ [](SelectSeq(requests, LAMBDA t : clock - t < time_window) = admitted)
    /\ [](Len(admitted) <= Len(requests))
    /\ [][(rpc = "sleeping" /\ rpc' = "cancelled") =>
              UNCHANGED <<max_retries, base_delay, backoff_factor>>]_vars

\* C31 witness: the retried call was cancelled in its backoff sleep, a
\* coroutine was cancelled in its rate-limit sleep, and another coroutine
\* has slept, woken and recorded its request at this instant
C31_Witness ==
    /\ rpc = "cancelled"
    /\ sleeps = 1
    /\ \E p, q \in Procs :
          /\ p # q
          /\ lpc[p] = "cancelled"
          /\ lpc[q] = "idle"
          /\ naps[q] = 1
          /\ requests # <<>>
          /\ requests[Len(requests)] = clock

====
